---- MODULE Spec2Model ----
(***************************************************************************)
(* Model of the audio routing engine of the visualizer:                    *)
(*   - the module-level singleton getAudioGraph (services/audioUtils.ts)   *)
(*   - UnifiedAudioGraph: connectMicrophone, connectSystemAudio,           *)
(*     connectElement, disconnect, resume                                  *)
(* The Web Audio / Media Capture platform is modelled by what the methods  *)
(* do to it: which nodes feed the analyser, whether the analyser feeds the *)
(* context destination, which tracks of which granted stream are live, and *)
(* which media elements already own a MediaElementAudioSourceNode.         *)
(* An async method is one action per run-to-completion segment: the part   *)
(* before its await, and the part after the awaited promise settles.       *)
(***************************************************************************)
EXTENDS Integers, Sequences, FiniteSets, TLC

\* ---------------------------------------------------------------- bounds
MaxStreams == 2        \* streams the platform grants over one run
MaxPending == 2        \* connect calls awaiting their capture promise at once
NumElements == 2       \* <audio> elements that may be tapped
MaxInstances == 2      \* cap on UnifiedAudioGraph constructions

Elements == 1..NumElements

\* ---------------------------------------------------------------- values
NoNode == <<"none", 0>>
StreamNode(sid) == <<"stream", sid>>       \* createMediaStreamSource(stream)
ElementNode(e) == <<"element", e>>         \* createMediaElementSource(element)

NoStream == 0

\* what getUserMedia({audio: true, video: false}) resolves with
UserMediaTracks == {<<"audio">>}
\* what getDisplayMedia({video: true, audio: true}) resolves with: the video
\* track, and the audio track only when the user ticked "share audio"
DisplayMediaTracks == {<<"video">>, <<"video", "audio">>}

VARIABLES
  audioGraphInstance,     \* module variable: 0 (null) or the instance id
  instancesCreated,       \* number of `new UnifiedAudioGraph()` executed
  returned,               \* instance ids getAudioGraph has returned so far
  contextState,           \* audioContext.state
  caps,                   \* navigator.mediaDevices capabilities
  source,                 \* this.source
  activeStream,           \* this.activeStream
  analyserInputs,         \* nodes connected to this.analyser
  analyserToDestination,  \* analyser connected to audioContext.destination
  streams,                \* every MediaStream granted so far, by id
  tapped,                 \* elements that own a MediaElementAudioSourceNode
  calls,                  \* connect calls suspended at their await
  callPre,                \* the router's fields when the latest call began
  lastOp                  \* the call segment that ran last, and its outcome

\* the offline mixer (mixAudioBuffers)
VARIABLES
  buffer1,                \* first decoded AudioBuffer
  buffer2,                \* second decoded AudioBuffer
  mixed,                  \* what the last mixAudioBuffers call resolved with
  mixResults              \* every result resolved for these two inputs

\* the PCM encoder (audioBufferToWav)
VARIABLES
  wavBuffer,              \* the AudioBuffer handed to the encoder
  wavBytes                \* the bytes of the Blob it returned

\* the analyser's frame and what is derived from it
VARIABLES
  ctxSampleRate,          \* audioContext.sampleRate
  dataArray,              \* the Uint8Array getByteFrequencyData fills
  features                \* what the last poll computed from the frame

\* the React components' state
VARIABLES
  app,                    \* App: isMicActive, isSystemAudioActive, inputSource
  track,                  \* one TrackCard: its AudioTrackState and its requests
  combiner                \* Combiner: its state and its handleCombine call

routerVars == <<audioGraphInstance, instancesCreated, returned, contextState,
                caps, source, activeStream, analyserInputs,
                analyserToDestination, streams, tapped, calls, callPre, lastOp>>
mixVars == <<buffer1, buffer2, mixed, mixResults>>
wavVars == <<wavBuffer, wavBytes>>
spectrumVars == <<ctxSampleRate, dataArray, features>>

appVars == <<app>>
trackVars == <<track>>
combinerVars == <<combiner>>

vars == <<routerVars, mixVars, wavVars, spectrumVars, appVars, trackVars,
          combinerVars>>

\* the router's own fields
Router == [source |-> source, activeStream |-> activeStream]
Idle == [source |-> NoNode, activeStream |-> NoStream]

\* the router's fields together with the platform objects they point into
Graph == [source |-> source, activeStream |-> activeStream,
          analyserInputs |-> analyserInputs,
          analyserToDestination |-> analyserToDestination,
          streams |-> streams, tapped |-> tapped]

Commit(g) ==
  /\ source' = g.source
  /\ activeStream' = g.activeStream
  /\ analyserInputs' = g.analyserInputs
  /\ analyserToDestination' = g.analyserToDestination
  /\ streams' = g.streams
  /\ tapped' = g.tapped

\* ---------------------------------------------------------------- streams
NewStream(kind, trackKinds) ==
  [kind |-> kind,
   tracks |-> [i \in 1..Len(trackKinds) |->
                 [kind |-> trackKinds[i], readyState |-> "live"]]]

getAudioTracks(stream) ==
  {i \in 1..Len(stream.tracks) : stream.tracks[i].kind = "audio"}

AllStopped(stream) ==
  \A i \in 1..Len(stream.tracks) : stream.tracks[i].readyState = "ended"

\* stream.getTracks().forEach(t => t.stop())
stopTracks(stream) ==
  [stream EXCEPT !.tracks =
     [i \in 1..Len(stream.tracks) |->
        [stream.tracks[i] EXCEPT !.readyState = "ended"]]]

\* ---------------------------------------------------------------- disconnect
\* the mutant forgets source.disconnect(): the old node keeps feeding the analyser
disconnect_keepsNode(g) ==
  LET g1 == IF g.source # NoNode THEN [g EXCEPT !.source = NoNode] ELSE g
  IN IF g1.activeStream # NoStream
     THEN [g1 EXCEPT !.streams[g1.activeStream] = stopTracks(@),
                     !.activeStream = NoStream]
     ELSE g1

\* the mutant forgets `this.activeStream = null`
disconnect_keepsStream(g) ==
  LET g1 == IF g.source # NoNode
            THEN [g EXCEPT !.analyserInputs = @ \ {g.source}, !.source = NoNode]
            ELSE g
  IN IF g1.activeStream # NoStream
     THEN [g1 EXCEPT !.streams[g1.activeStream] = stopTracks(@)]
     ELSE g1

\* UnifiedAudioGraph.disconnect
disconnect(g) ==
  LET g1 == IF g.source # NoNode
            THEN [g EXCEPT !.analyserInputs = @ \ {g.source}, !.source = NoNode]
            ELSE g
  IN IF g1.activeStream # NoStream
     THEN [g1 EXCEPT !.streams[g1.activeStream] = stopTracks(@),
                     !.activeStream = NoStream]
     ELSE g1

\* ---------------------------------------------------------------- resume
\* UnifiedAudioGraph.resume: a suspended context is resumed (the settling of
\* the promise audioContext.resume() returns is not a separate step)
resume ==
  contextState' = IF contextState = "suspended" THEN "running" ELSE contextState


\* ---------------------------------------------------------------- records
NoOp == [op |-> "none", result |-> "none", why |-> "none", arg |-> 0,
         disconnected |-> FALSE]

\* op: the method; result: what it returned; why: the branch it took;
\* arg: the element passed in or the stream granted; disconnected: whether
\* disconnect() was called while the call was suspended
Op(op, result, why, arg, disc) ==
  [op |-> op, result |-> result, why |-> why, arg |-> arg, disconnected |-> disc]

\* a connect call suspended at its await: which method, and whether
\* disconnect() has been called since. Suspended calls hold no other local
\* state, so `calls` counts them by these two attributes.
Call(op, disc) == [op |-> op, disconnected |-> disc]
Calls == [op : {"connectMicrophone", "connectSystemAudio"}, disconnected : BOOLEAN]

RECURSIVE Sum(_, _)
Sum(f, S) == IF S = {} THEN 0
             ELSE LET x == CHOOSE y \in S : TRUE IN f[x] + Sum(f, S \ {x})

Pending == Sum(calls, Calls)

Suspend(c) == [calls EXCEPT ![c] = @ + 1]
Settle(c) == [calls EXCEPT ![c] = @ - 1]

Constructed == audioGraphInstance # 0

\* ---------------------------------------------------------------- singleton
\* the mutant constructs on every call
needsInstance_always(inst) == TRUE

\* `if (!audioGraphInstance)`
needsInstance(inst) == inst = 0

\* getAudioGraph, with the UnifiedAudioGraph constructor it may run
getAudioGraph ==
  /\ IF needsInstance(audioGraphInstance)
     THEN /\ instancesCreated < MaxInstances
          /\ instancesCreated' = instancesCreated + 1
          /\ audioGraphInstance' = instancesCreated + 1
          /\ contextState' \in {"suspended", "running"}
          /\ source' = NoNode
          /\ activeStream' = NoStream
          /\ analyserInputs' = {}
          /\ analyserToDestination' = FALSE
          /\ lastOp' = Op("getAudioGraph", "created", "none", instancesCreated + 1, FALSE)
     ELSE /\ UNCHANGED <<instancesCreated, audioGraphInstance, contextState,
                 source, activeStream, analyserInputs,
                         analyserToDestination>>
          /\ lastOp' = Op("getAudioGraph", "cached", "none", audioGraphInstance, FALSE)
  /\ returned' = returned \cup {audioGraphInstance'}
  /\ UNCHANGED <<caps, streams, tapped, calls, callPre>>
  /\ UNCHANGED <<mixVars, wavVars, spectrumVars, trackVars, combinerVars>>

\* ---------------------------------------------------------------- microphone
\* the mutant stores the stream and creates no source node for it
attachStream_noSource(g, kind, trackKinds) ==
  LET sid == Len(g.streams) + 1
  IN [g EXCEPT !.streams = Append(@, NewStream(kind, trackKinds)),
               !.activeStream = sid]

\* the stream is stored, wrapped in a source node and fed to the analyser
attachStream(g, kind, trackKinds) ==
  LET sid == Len(g.streams) + 1
  IN [g EXCEPT !.streams = Append(@, NewStream(kind, trackKinds)),
               !.activeStream = sid,
               !.source = StreamNode(sid),
               !.analyserInputs = @ \cup {StreamNode(sid)}]

\* connectMicrophone up to its await (or its early return)
connectMicrophone ==
  /\ Constructed
  /\ resume
  /\ Commit(disconnect(Graph))
  /\ callPre' = Router
  /\ IF ~caps.getUserMedia
     THEN /\ calls' = calls
          /\ lastOp' = Op("connectMicrophone", "false", "unsupported", 0, FALSE)
     ELSE /\ Pending < MaxPending
          /\ calls' = Suspend(Call("connectMicrophone", FALSE))
          /\ lastOp' = Op("connectMicrophone", "pending", "none", 0, FALSE)
  /\ UNCHANGED <<audioGraphInstance, instancesCreated, returned, caps>>
  /\ UNCHANGED <<mixVars, wavVars, spectrumVars, trackVars, combinerVars>>

\* getUserMedia resolves: connectMicrophone from its await to `return true`
connectMicrophoneGranted(d) ==
  /\ calls[Call("connectMicrophone", d)] > 0
  /\ Len(streams) < MaxStreams
  /\ \E trackKinds \in UserMediaTracks :
       Commit(attachStream(Graph, "microphone", trackKinds))
  /\ calls' = Settle(Call("connectMicrophone", d))
  /\ lastOp' = Op("connectMicrophone", "true", "granted", Len(streams) + 1,
                  d)
  /\ UNCHANGED <<audioGraphInstance, instancesCreated, returned, contextState,
                 caps, callPre>>
  /\ UNCHANGED <<mixVars, wavVars, spectrumVars, trackVars, combinerVars>>

\* getUserMedia rejects: the catch block returns false
connectMicrophoneDenied(d) ==
  /\ calls[Call("connectMicrophone", d)] > 0
  /\ calls' = Settle(Call("connectMicrophone", d))
  /\ lastOp' = Op("connectMicrophone", "false", "denied", 0, d)
  /\ UNCHANGED <<audioGraphInstance, instancesCreated, returned, contextState,
                 caps, source, activeStream, analyserInputs,
                 analyserToDestination, streams, tapped, callPre>>
  /\ UNCHANGED <<mixVars, wavVars, spectrumVars, trackVars, combinerVars>>

\* ---------------------------------------------------------------- system audio
\* the mutant drops the `if (!audioTrack)` rejection
hasNoAudioTrack_never(stream) == FALSE

\* `const audioTrack = stream.getAudioTracks()[0]; if (!audioTrack)`
hasNoAudioTrack(stream) == getAudioTracks(stream) = {}

\* a granted stream without audio: all its tracks are stopped, nothing is stored
rejectStream(g, kind, trackKinds) ==
  [g EXCEPT !.streams = Append(@, stopTracks(NewStream(kind, trackKinds)))]

\* connectSystemAudio up to its await (or its early return)
connectSystemAudio ==
  /\ Constructed
  /\ resume
  /\ Commit(disconnect(Graph))
  /\ callPre' = Router
  /\ IF ~caps.getDisplayMedia
     THEN /\ calls' = calls
          /\ lastOp' = Op("connectSystemAudio", "false", "unsupported", 0, FALSE)
     ELSE /\ Pending < MaxPending
          /\ calls' = Suspend(Call("connectSystemAudio", FALSE))
          /\ lastOp' = Op("connectSystemAudio", "pending", "none", 0, FALSE)
  /\ UNCHANGED <<audioGraphInstance, instancesCreated, returned, caps>>
  /\ UNCHANGED <<mixVars, wavVars, spectrumVars, trackVars, combinerVars>>

\* getDisplayMedia resolves: connectSystemAudio from its await to its return
connectSystemAudioGranted(d) ==
  /\ calls[Call("connectSystemAudio", d)] > 0
  /\ Len(streams) < MaxStreams
  /\ \E trackKinds \in DisplayMediaTracks :
       IF hasNoAudioTrack(NewStream("system", trackKinds))
       THEN /\ Commit(rejectStream(Graph, "system", trackKinds))
            /\ lastOp' = Op("connectSystemAudio", "false", "noAudioTrack",
                            Len(streams) + 1, d)
       ELSE /\ Commit(attachStream(Graph, "system", trackKinds))
            /\ lastOp' = Op("connectSystemAudio", "true", "granted",
                            Len(streams) + 1, d)
  /\ calls' = Settle(Call("connectSystemAudio", d))
  /\ UNCHANGED <<audioGraphInstance, instancesCreated, returned, contextState,
                 caps, callPre>>
  /\ UNCHANGED <<mixVars, wavVars, spectrumVars, trackVars, combinerVars>>

\* getDisplayMedia rejects: the catch block returns false
connectSystemAudioDenied(d) ==
  /\ calls[Call("connectSystemAudio", d)] > 0
  /\ calls' = Settle(Call("connectSystemAudio", d))
  /\ lastOp' = Op("connectSystemAudio", "false", "denied", 0, d)
  /\ UNCHANGED <<audioGraphInstance, instancesCreated, returned, contextState,
                 caps, source, activeStream, analyserInputs,
                 analyserToDestination, streams, tapped, callPre>>
  /\ UNCHANGED <<mixVars, wavVars, spectrumVars, trackVars, combinerVars>>

\* ---------------------------------------------------------------- element
\* the mutant forgets analyser.connect(destination)
attachElement_silent(g, e) ==
  [g EXCEPT !.tapped = @ \cup {e},
            !.source = ElementNode(e),
            !.analyserInputs = @ \cup {ElementNode(e)}]

\* the three statements after disconnect() in connectElement's try block
attachElement(g, e) ==
  [g EXCEPT !.tapped = @ \cup {e},
            !.source = ElementNode(e),
            !.analyserInputs = @ \cup {ElementNode(e)},
            !.analyserToDestination = TRUE]

\* createMediaElementSource throws InvalidStateError for an element that
\* already owns a source node; the catch block swallows it after disconnect()
\* has run
connectElementGraph(g, e) ==
  LET g1 == disconnect(g)
  IN IF e \in g1.tapped THEN g1 ELSE attachElement(g1, e)

wasTapped(t, e) == IF e \in t THEN "alreadyTapped" ELSE "fresh"

\* connectElement
connectElement(e) ==
  /\ Constructed
  /\ resume
  /\ Commit(connectElementGraph(Graph, e))
  /\ lastOp' = IF source' = ElementNode(e)
               THEN Op("connectElement", "connected", wasTapped(tapped, e), e, FALSE)
               ELSE Op("connectElement", "ignored", wasTapped(tapped, e), e, FALSE)
  /\ callPre' = Router
  /\ UNCHANGED <<audioGraphInstance, instancesCreated, returned, caps, calls>>
  /\ UNCHANGED <<mixVars, wavVars, spectrumVars, trackVars, combinerVars>>

\* ---------------------------------------------------------------- disconnect
\* a direct call of disconnect(), as App.tsx makes
Disconnect ==
  /\ Constructed
  /\ Commit(disconnect(Graph))
  /\ calls' = [c \in Calls |->
                 IF c.disconnected
                 THEN calls[c] + calls[Call(c.op, FALSE)]
                 ELSE 0]
  /\ lastOp' = Op("disconnect", "done", "none", 0, FALSE)
  /\ callPre' = Router
  /\ UNCHANGED <<audioGraphInstance, instancesCreated, returned, contextState,
                 caps>>
  /\ UNCHANGED <<mixVars, wavVars, spectrumVars, trackVars, combinerVars>>

\* ---------------------------------------------------------------- other components
\* the mixer, the encoder and the analyser's frame before they are used
NoBuffer == [length |-> 0, sampleRate |-> 0, numberOfChannels |-> 0,
             resampled |-> FALSE, data |-> <<>>]

MixerUnused ==
  /\ buffer1 = NoBuffer
  /\ buffer2 = NoBuffer
  /\ mixed = NoBuffer
  /\ mixResults = {}

EncoderUnused ==
  /\ wavBuffer = NoBuffer
  /\ wavBytes = <<>>

NoFeatures == [op |-> "none"]

\* App's useState initial values (App.tsx:21-25); systemRequests holds the
\* sourceType argument of every toggleSystemAudio call awaiting its connect
AppInitial ==
  [isMicActive |-> FALSE, isSystemAudioActive |-> FALSE, inputSource |-> "FILE",
   systemRequests |-> <<>>]

\* initialTrackState (App.tsx:9-17): file and url 0 are null
initialTrackState ==
  [file |-> 0, originalUrl |-> 0, enhancedUrl |-> 0, status |-> "IDLE",
   analysisReport |-> "undefined"]

\* what enhanceAudioWithGemini has not yet resolved with
NoResult == [kind |-> "none", success |-> FALSE, analysis |-> "none",
             why |-> "none", waited |-> 0, file |-> 0]

\* a track's state in App; requests are the handleEnhance calls awaiting
\* enhanceAudioWithGemini, chosen and started count the files picked and the
\* calls made, remoteCalls the generateContent calls issued, apiKey is
\* whether process.env.API_KEY is set, lastResult what the latest settled
\* enhanceAudioWithGemini call produced
TrackInitial ==
  [state |-> initialTrackState, requests |-> {}, chosen |-> 0, started |-> 0,
   remoteCalls |-> 0, apiKey |-> FALSE, lastResult |-> NoResult]

\* a track without a file
NoFile == [kind |-> "none", buffer |-> NoBuffer]

\* Combiner's useState initial values (TooltipSystem.tsx:134-136) and no
\* handleCombine call running. vocalFile and instFile are the two tracks'
\* files, phase the await handleCombine is suspended at, openContexts the
\* AudioContexts decodeAudioData created and has not closed, combines the
\* handleCombine calls made, outcome how the latest call ended, downloaded
\* the suffix of the file name last offered by the download link
CombinerInitial ==
  [isMixing |-> FALSE, mixedBlobUrl |-> "null", selectedFormat |-> "audio/wav",
   phase |-> "idle", vocalFile |-> NoFile, instFile |-> NoFile,
   openContexts |-> 0, combines |-> 0, outcome |-> "none",
   downloaded |-> "none"]

AppUnused == app = AppInitial
TrackUnused == track = TrackInitial
CombinerUnused == combiner = CombinerInitial

SpectrumUnused ==
  /\ ctxSampleRate = 0
  /\ dataArray = <<>>
  /\ features = NoFeatures

\* ---------------------------------------------------------------- specifications
Init ==
  /\ audioGraphInstance = 0
  /\ instancesCreated = 0
  /\ returned = {}
  /\ contextState = "none"
  /\ caps \in [getUserMedia : BOOLEAN, getDisplayMedia : BOOLEAN]
  /\ source = NoNode
  /\ activeStream = NoStream
  /\ analyserInputs = {}
  /\ analyserToDestination = FALSE
  /\ streams = <<>>
  /\ tapped = {}
  /\ calls = [c \in Calls |-> 0]
  /\ callPre = Idle
  /\ lastOp = NoOp
  /\ MixerUnused
  /\ EncoderUnused
  /\ SpectrumUnused
  /\ AppUnused
  /\ TrackUnused
  /\ CombinerUnused

\* any interleaving: a call may start while earlier connects are still pending
Next ==
  /\ \/ getAudioGraph
     \/ connectMicrophone
     \/ \E d \in BOOLEAN : connectMicrophoneGranted(d)
     \/ \E d \in BOOLEAN : connectMicrophoneDenied(d)
     \/ connectSystemAudio
     \/ \E d \in BOOLEAN : connectSystemAudioGranted(d)
     \/ \E d \in BOOLEAN : connectSystemAudioDenied(d)
     \/ \E e \in Elements : connectElement(e)
     \/ Disconnect
  /\ UNCHANGED appVars

Spec == Init /\ [][Next]_vars

\* each call settles before the next one starts
Settled == Pending = 0

NextSeq ==
  /\ \/ Settled /\ getAudioGraph
     \/ Settled /\ connectMicrophone
     \/ \E d \in BOOLEAN : connectMicrophoneGranted(d)
     \/ \E d \in BOOLEAN : connectMicrophoneDenied(d)
     \/ Settled /\ connectSystemAudio
     \/ \E d \in BOOLEAN : connectSystemAudioGranted(d)
     \/ \E d \in BOOLEAN : connectSystemAudioDenied(d)
     \/ Settled /\ \E e \in Elements : connectElement(e)
     \/ Settled /\ Disconnect
  /\ UNCHANGED appVars

SpecSeq == Init /\ [][NextSeq]_vars

\* ---------------------------------------------------------------- claims
ConnectOps == {"connectMicrophone", "connectSystemAudio", "connectElement"}
CaptureOps == {"connectMicrophone", "connectSystemAudio"}
StreamIds == 1..Len(streams)

Released(sid) == AllStopped(streams[sid]) /\ StreamNode(sid) \notin analyserInputs

\* C1: with calls made one after the other, a connect that has detached the
\* previous source and awaits its stream leaves nothing attached and no track
\* live, and after a successful connect the analyser has exactly one input,
\* the router's source, built from the stream or element that call attached;
\* every other stream granted so far has all its tracks stopped and its node
\* detached.
C1_ExclusiveAfterConnect ==
  /\ (lastOp.op \in CaptureOps /\ lastOp.result = "pending") =>
       /\ analyserInputs = {}
       /\ \A sid \in StreamIds : Released(sid)
  /\ (lastOp.op \in ConnectOps /\ lastOp.result \in {"true", "connected"}) =>
       /\ source # NoNode
       /\ analyserInputs = {source}
       /\ \A sid \in StreamIds : sid # activeStream => Released(sid)
       /\ callPre.source # source => callPre.source \notin analyserInputs
       /\ lastOp.op \in CaptureOps =>
            /\ activeStream = lastOp.arg
            /\ source = StreamNode(activeStream)
            /\ ~AllStopped(streams[activeStream])
       /\ lastOp.op = "connectElement" =>
            /\ activeStream = NoStream
            /\ source = ElementNode(lastOp.arg)

\* a successful connect made while another stream was the active source
C1_Witness ==
  /\ lastOp.op \in CaptureOps
  /\ lastOp.result = "true"
  /\ callPre.activeStream # NoStream
  /\ callPre.activeStream # activeStream

\* C2: while the active source is a microphone or system-loopback stream,
\* that source has no path to the audible output: its node feeding the
\* analyser and the analyser feeding the destination never hold together.
C2_CaptureNeverAudible ==
  (source # NoNode /\ source[1] = "stream") =>
    ~(source \in analyserInputs /\ analyserToDestination)

\* C3: when connectMicrophone or connectSystemAudio has returned false, the
\* router's source and stream are what they were when the call was made.
C3_FailedConnectKeepsState ==
  (lastOp.op \in CaptureOps /\ lastOp.result = "false") => Router = callPre

\* C4: a stream granted to connectSystemAudio without an audio track makes the
\* call return false, has every track stopped by then, and is at no time the
\* router's active stream or an input of the analyser.
C4_SilentStreamRejected ==
  /\ \A sid \in StreamIds :
       getAudioTracks(streams[sid]) = {} =>
         /\ AllStopped(streams[sid])
         /\ activeStream # sid
         /\ source # StreamNode(sid)
         /\ StreamNode(sid) \notin analyserInputs
  /\ (lastOp.op = "connectSystemAudio" /\ lastOp.arg # 0
        /\ getAudioTracks(streams[lastOp.arg]) = {}) =>
       lastOp.result = "false"

\* connectSystemAudio has just rejected a video-only stream
C4_Witness ==
  /\ lastOp.op = "connectSystemAudio"
  /\ lastOp.result = "false"
  /\ lastOp.arg # 0
  /\ getAudioTracks(streams[lastOp.arg]) = {}
  /\ Len(streams[lastOp.arg].tracks) > 0

GraphVars == <<source, activeStream, analyserInputs, analyserToDestination,
               streams, tapped>>

\* C5: every disconnect() leaves the router with no source and no stream, its
\* former node detached and every track of its former stream stopped; on an
\* Idle router it changes nothing, and a second disconnect changes nothing
\* the first one left.
C5_DisconnectIdempotent ==
  [][Disconnect =>
       /\ source' = NoNode
       /\ activeStream' = NoStream
       /\ source # NoNode => source \notin analyserInputs'
       /\ activeStream # NoStream => AllStopped(streams'[activeStream])
       /\ Router = Idle => UNCHANGED GraphVars
       /\ disconnect(disconnect(Graph)) = disconnect(Graph)]_vars

\* disconnect() has just run on a router that was already Idle, after an
\* earlier stream was released
C5_Witness ==
  /\ lastOp.op = "disconnect"
  /\ callPre = Idle
  /\ \E sid \in StreamIds : getAudioTracks(streams[sid]) # {} /\ Released(sid)

\* C6: connectElement(e) on the element the router is already connected to
\* leaves e attached to the analyser and routed to the audible output.
C6_ReconnectIsNoOp ==
  (lastOp.op = "connectElement" /\ callPre.source = ElementNode(lastOp.arg)) =>
    /\ source = ElementNode(lastOp.arg)
    /\ ElementNode(lastOp.arg) \in analyserInputs
    /\ analyserToDestination

\* C7: after connectElement(e) for an element never tapped before, e's node is
\* the router's source and feeds the analyser, the analyser feeds the audible
\* output, and the router owns no stream.
C7_FreshElementActive ==
  (lastOp.op = "connectElement" /\ lastOp.why = "fresh") =>
    /\ lastOp.result = "connected"
    /\ source = ElementNode(lastOp.arg)
    /\ ElementNode(lastOp.arg) \in analyserInputs
    /\ analyserToDestination
    /\ activeStream = NoStream

\* a fresh element has just replaced a live capture stream
C7_Witness ==
  /\ lastOp.op = "connectElement"
  /\ lastOp.why = "fresh"
  /\ callPre.activeStream # NoStream

\* C8: when a connect call has resolved by attaching a stream, under any
\* interleaving of calls, every other stream granted so far has all its tracks
\* stopped and its node detached from the analyser.
C8_ResolveReleasesEarlier ==
  (lastOp.op \in CaptureOps /\ lastOp.result = "true") =>
    \A sid \in StreamIds : sid # lastOp.arg => Released(sid)

\* C9: a stream granted to a connect call during whose wait disconnect() was
\* called is stopped and is neither the router's stream nor an analyser input.
C9_OrphanedGrantDropped ==
  (lastOp.op \in CaptureOps /\ lastOp.disconnected /\ lastOp.arg # 0) =>
    /\ Released(lastOp.arg)
    /\ activeStream # lastOp.arg
    /\ source # StreamNode(lastOp.arg)

\* C10: no instance exists before the first call; at most one is ever
\* constructed, and every call returns that one.
C10_SingleInstance ==
  /\ instancesCreated <= 1
  /\ (returned = {}) = (instancesCreated = 0)
  /\ (audioGraphInstance = 0) = (instancesCreated = 0)
  /\ returned \subseteq {audioGraphInstance}
  /\ lastOp.op = "getAudioGraph" => lastOp.arg = audioGraphInstance

\* a later call of getAudioGraph has returned the existing instance
C10_Witness ==
  /\ lastOp.op = "getAudioGraph"
  /\ lastOp.result = "cached"
  /\ returned = {1}

\* ================================================================ offline mixer
MaxFrames == 15        \* longest decoded buffer, in frames

SampleRates == {44100, 48000}
ChannelCounts == {1, 2}

\* the router before its first use, for the specifications of the other parts
RouterUnused ==
  /\ audioGraphInstance = 0
  /\ instancesCreated = 0
  /\ returned = {}
  /\ contextState = "none"
  /\ caps = [getUserMedia |-> TRUE, getDisplayMedia |-> TRUE]
  /\ source = NoNode
  /\ activeStream = NoStream
  /\ analyserInputs = {}
  /\ analyserToDestination = FALSE
  /\ streams = <<>>
  /\ tapped = {}
  /\ calls = [c \in Calls |-> 0]
  /\ callPre = Idle
  /\ lastOp = NoOp

Max(a, b) == IF a >= b THEN a ELSE b

\* decoded signals: samples in units of full scale, one value per frame and
\* channel. "ramp" differs from frame to frame and from channel to channel.
Patterns == {"silence", "full", "negative", "ramp"}

PatternSample(pattern, ch, i) ==
  CASE pattern = "silence" -> 0
    [] pattern = "full" -> 1
    [] pattern = "negative" -> -1
    [] pattern = "ramp" -> ((i + ch) % 3) - 1

\* an AudioBuffer as decodeAudioData resolves it
AudioBuffer(length, sampleRate, numberOfChannels, pattern) ==
  [length |-> length, sampleRate |-> sampleRate,
   numberOfChannels |-> numberOfChannels, resampled |-> FALSE,
   data |-> [ch \in 1..numberOfChannels |->
               [i \in 1..length |-> PatternSample(pattern, ch, i)]]]

DecodedBuffers ==
  {AudioBuffer(n, r, c, p) :
     n \in 1..MaxFrames, r \in SampleRates, c \in ChannelCounts, p \in Patterns}

\* AudioBuffer.duration is the double length / sampleRate, and line 51 passes
\* the double duration * sampleRate where an unsigned long is wanted, which
\* keeps its integer part. In exact arithmetic that is
\* floor(length * rate / sampleRate); these are the (length, sampleRate, rate)
\* with length <= 40 for which the two IEEE-754 roundings give a product just
\* below the exact integer, so that one frame less is kept.
DoubleRoundsBelow ==
  {<<15, 44100, 44100>>, <<23, 44100, 44100>>, <<30, 44100, 44100>>,
   <<27, 48000, 48000>>}

\* ToUnsignedLong(buffer.duration * rate) of a buffer of `length` frames at
\* `sampleRate`
RenderLength(length, sampleRate, rate) ==
  IF <<length, sampleRate, rate>> \in DoubleRoundsBelow
  THEN (length * rate) \div sampleRate - 1
  ELSE (length * rate) \div sampleRate

\* Math.max(buffer1.duration, buffer2.duration) is the duration of ...
Longer(b1, b2) ==
  IF b1.length * b2.sampleRate >= b2.length * b1.sampleRate THEN b1 ELSE b2

\* what an AudioBufferSourceNode started at 0 feeds channel ch of the
\* destination at frame i: its buffer's sample while the buffer lasts (a mono
\* buffer feeds every channel), silence after its end
Contribution(b, ch, i) ==
  IF i > b.length THEN 0
  ELSE IF b.numberOfChannels = 1 THEN b.data[1][i]
  ELSE IF ch <= b.numberOfChannels THEN b.data[ch][i]
  ELSE 0

\* the destination sums what its two inputs feed it
MixSample(b1, b2, ch, i) == Contribution(b1, ch, i) + Contribution(b2, ch, i)

\* the mutant renders into the buffer of the previous call without clearing it
mixAudioBuffers_accumulates(b1, b2) ==
  LET sampleRate == Max(b1.sampleRate, b2.sampleRate)
      numberOfChannels == Max(b1.numberOfChannels, b2.numberOfChannels)
      longer == Longer(b1, b2)
      length == RenderLength(longer.length, longer.sampleRate, sampleRate)
      resampled == b1.sampleRate # sampleRate \/ b2.sampleRate # sampleRate
      old(ch, i) == IF mixed.resampled \/ ch > mixed.numberOfChannels
                       \/ i > mixed.length
                    THEN 0 ELSE mixed.data[ch][i]
  IN [length |-> length, sampleRate |-> sampleRate,
      numberOfChannels |-> numberOfChannels, resampled |-> resampled,
      data |-> IF resampled THEN <<>>
               ELSE [ch \in 1..numberOfChannels |->
                       [i \in 1..length |-> MixSample(b1, b2, ch, i) + old(ch, i)]]]

\* mixAudioBuffers: the buffer startRendering resolves with. An input whose
\* rate is not the output rate is resampled by the platform; the samples of
\* such a mix are not modelled, only its shape.
mixAudioBuffers(b1, b2) ==
  LET sampleRate == Max(b1.sampleRate, b2.sampleRate)
      numberOfChannels == Max(b1.numberOfChannels, b2.numberOfChannels)
      longer == Longer(b1, b2)
      length == RenderLength(longer.length, longer.sampleRate, sampleRate)
      resampled == b1.sampleRate # sampleRate \/ b2.sampleRate # sampleRate
  IN [length |-> length, sampleRate |-> sampleRate,
      numberOfChannels |-> numberOfChannels, resampled |-> resampled,
      data |-> IF resampled THEN <<>>
               ELSE [ch \in 1..numberOfChannels |->
                       [i \in 1..length |-> MixSample(b1, b2, ch, i)]]]

\* a call of mixAudioBuffers(buffer1, buffer2), from the call to the
\* resolution of its promise
MixAudioBuffers ==
  /\ mixed' = mixAudioBuffers(buffer1, buffer2)
  /\ mixResults' = mixResults \cup {mixed'}
  /\ UNCHANGED <<buffer1, buffer2>>
  /\ UNCHANGED <<routerVars, wavVars, spectrumVars, appVars, trackVars, combinerVars>>

InitMix ==
  /\ RouterUnused
  /\ EncoderUnused
  /\ SpectrumUnused
  /\ buffer1 \in DecodedBuffers
  /\ buffer2 \in DecodedBuffers
  /\ mixed = NoBuffer
  /\ mixResults = {}
  /\ AppUnused
  /\ TrackUnused
  /\ CombinerUnused

NextMix == MixAudioBuffers

SpecMix == InitMix /\ [][NextMix]_vars

Mixed == mixed # NoBuffer

\* C11: the mix has the larger of the two sample rates, the larger of the two
\* channel counts, and exactly the duration of the longer input
\* (length / sampleRate, compared as fractions).
C11_MixShape ==
  Mixed =>
    /\ mixed.sampleRate = Max(buffer1.sampleRate, buffer2.sampleRate)
    /\ mixed.numberOfChannels
         = Max(buffer1.numberOfChannels, buffer2.numberOfChannels)
    /\ mixed.length * Longer(buffer1, buffer2).sampleRate
         = Longer(buffer1, buffer2).length * mixed.sampleRate

SameShape ==
  /\ buffer1.sampleRate = buffer2.sampleRate
  /\ buffer1.numberOfChannels = buffer2.numberOfChannels

\* C12: for inputs of equal rate and channel count, the mix holds every frame
\* of the longer input, and each of its samples is the unclipped sum of the
\* two inputs' samples at that frame and channel, an input that has ended
\* adding 0.
C12_MixIsSum ==
  (Mixed /\ SameShape) =>
    /\ mixed.length = Max(buffer1.length, buffer2.length)
    /\ ~mixed.resampled
    /\ \A ch \in 1..mixed.numberOfChannels : \A i \in 1..mixed.length :
         mixed.data[ch][i]
           = (IF i <= buffer1.length THEN buffer1.data[ch][i] ELSE 0)
             + (IF i <= buffer2.length THEN buffer2.data[ch][i] ELSE 0)

MaxWavFrames == 2      \* longest buffer handed to the encoder, in frames

\* samples as fractions <<numerator, denominator>> of full scale; 3/2 and
\* -3/2 are the over-range sums a mix may hold
WavSamples ==
  << <<0, 1>>, <<1, 1>>, <<-1, 1>>, <<1, 2>>, <<-1, 2>>, <<-2, 5>>,
     <<-1, 4>>, <<3, 2>>, <<-3, 2>>, <<1, 10>>, <<-49, 100>>, <<2, 3>> >>

\* a buffer whose samples run through WavSamples from `first` on, in frame
\* order and within a frame in channel order, so that neighbours differ
WavInput(length, sampleRate, numberOfChannels, first) ==
  [length |-> length, sampleRate |-> sampleRate,
   numberOfChannels |-> numberOfChannels, resampled |-> FALSE,
   data |-> [ch \in 1..numberOfChannels |->
               [i \in 1..length |->
                  WavSamples[((first + (i - 1) * numberOfChannels + (ch - 1))
                               % Len(WavSamples)) + 1]]]]

WavInputs ==
  {WavInput(n, r, c, f) :
     n \in 1..MaxWavFrames, r \in SampleRates \cup {8000}, c \in ChannelCounts,
     f \in 0..(Len(WavSamples) - 1)}

\* division rounding toward zero, as `| 0` does to a double in int32 range
Trunc(a, b) == IF a >= 0 THEN a \div b ELSE -((-a) \div b)

\* Math.max(-1, Math.min(1, x))
Clamp(x) == IF x[1] > x[2] THEN <<1, 1>> ELSE IF x[1] < -x[2] THEN <<-1, 1>> ELSE x

\* lines 107-108: (0.5 + sample < 0 ? sample * 32768 : sample * 32767) | 0,
\* where `0.5 + sample < 0` is (0.5 + sample) < 0
Quantize(x) ==
  LET s == Clamp(x)
  IN IF s[2] + 2 * s[1] < 0
     THEN Trunc(s[1] * 32768, s[2])
     ELSE Trunc(s[1] * 32767, s[2])

\* the little-endian bytes of an unsigned value
LittleEndian(value, size) ==
  [k \in 1..size |->
     (value \div (CASE k = 1 -> 1 [] k = 2 -> 256 [] k = 3 -> 65536
                    [] k = 4 -> 16777216)) % 256]

\* view.setInt16(.., sample, true): two's complement
Int16Bytes(q) == LittleEndian(q % 65536, 2)

\* DataView writes at byte offset pos (the array is indexed from 1)
Write(arr, pos, bytes) ==
  [j \in 1..Len(arr) |->
     IF j > pos /\ j <= pos + Len(bytes) THEN bytes[j - pos] ELSE arr[j]]

\* the setUint32 / setUint16 calls of lines 86-97, as <<size, value>>
HeaderFields(buffer, length) ==
  << <<4, 1179011410>>,                               \* "RIFF"
     <<4, length - 8>>,
     <<4, 1163280727>>,                               \* "WAVE"
     <<4, 544501094>>,                                \* "fmt "
     <<4, 16>>,
     <<2, 1>>,
     <<2, buffer.numberOfChannels>>,
     <<4, buffer.sampleRate>>,
     <<4, buffer.sampleRate * 2 * buffer.numberOfChannels>>,
     <<2, buffer.numberOfChannels * 2>>,
     <<2, 16>>,
     <<4, 1635017060>> >>                             \* "data"

\* setUint16 / setUint32: write at pos, advance pos
RECURSIVE WriteFields(_, _, _)
WriteFields(w, fields, k) ==
  IF k > Len(fields) THEN w
  ELSE WriteFields([bytes |-> Write(w.bytes, w.pos,
                                    LittleEndian(fields[k][2], fields[k][1])),
                    pos |-> w.pos + fields[k][1]],
                   fields, k + 1)

\* the mutant writes channel after channel (planar) instead of frame after frame
SampleOffset_planar(buffer, i, ch) == 2 * (ch * buffer.length + i)

\* the value of `offset` when frame i, channel ch is written (both from 0):
\* it starts at 0 and grows by 2 per sample, frames outside, channels inside
SampleOffset(buffer, i, ch) == 2 * (i * buffer.numberOfChannels + ch)

\* the loops of lines 104-113
RECURSIVE WriteSamples(_, _, _, _)
WriteSamples(arr, buffer, i, ch) ==
  IF i >= buffer.length THEN arr
  ELSE IF ch >= buffer.numberOfChannels THEN WriteSamples(arr, buffer, i + 1, 0)
  ELSE WriteSamples(Write(arr, 44 + SampleOffset(buffer, i, ch),
                          Int16Bytes(Quantize(buffer.data[ch + 1][i + 1]))),
                    buffer, i, ch + 1)

\* the mutant leaves the channel count out of the byte rate
audioBufferToWav_byteRate(buffer) ==
  LET length == buffer.length * buffer.numberOfChannels * 2 + 44
      fields == [HeaderFields(buffer, length) EXCEPT ![9] = <<4, buffer.sampleRate * 2>>]
      header == WriteFields([bytes |-> [j \in 1..length |-> 0], pos |-> 0],
                            fields, 1)
      sized == Write(header.bytes, header.pos,
                     LittleEndian(length - header.pos - 4, 4))
  IN WriteSamples(sized, buffer, 0, 0)

\* audioBufferToWav: the bytes of the Blob
audioBufferToWav(buffer) ==
  LET length == buffer.length * buffer.numberOfChannels * 2 + 44
      header == WriteFields([bytes |-> [j \in 1..length |-> 0], pos |-> 0],
                            HeaderFields(buffer, length), 1)
      sized == Write(header.bytes, header.pos,
                     LittleEndian(length - header.pos - 4, 4))
  IN WriteSamples(sized, buffer, 0, 0)

\* a call of audioBufferToWav(wavBuffer)
AudioBufferToWav ==
  /\ wavBytes' = audioBufferToWav(wavBuffer)
  /\ UNCHANGED wavBuffer
  /\ UNCHANGED <<routerVars, mixVars, spectrumVars, appVars, trackVars, combinerVars>>

InitWav ==
  /\ RouterUnused
  /\ MixerUnused
  /\ SpectrumUnused
  /\ wavBuffer \in WavInputs
  /\ wavBytes = <<>>
  /\ AppUnused
  /\ TrackUnused
  /\ CombinerUnused

NextWav == AudioBufferToWav

SpecWav == InitWav /\ [][NextWav]_vars

\* ---- reading a container back
Encoded == wavBytes # <<>>

Uint(pos, size) ==
  LET b(k) == wavBytes[pos + k]
  IN IF size = 2 THEN b(1) + 256 * b(2)
     ELSE b(1) + 256 * b(2) + 65536 * b(3) + 16777216 * b(4)

Int16At(pos) == LET u == Uint(pos, 2) IN IF u >= 32768 THEN u - 65536 ELSE u

\* the sample of frame i, channel ch (both from 0) in frame-interleaved order
Decoded(i, ch) == Int16At(44 + 2 * (i * wavBuffer.numberOfChannels + ch))

\* a buffer of the same shape holding only zeros
Silence(b) ==
  [b EXCEPT !.data = [ch \in 1..b.numberOfChannels |-> [i \in 1..b.length |-> <<0, 1>>]]]

FramesOf(b) == 0..(b.length - 1)
ChannelsOf(b) == 0..(b.numberOfChannels - 1)

\* round(x) for x = a / b, b > 0, as Math.round: floor(x + 1/2)
Round(a, b) == (2 * a + b) \div (2 * b)

\* C14: every 16-bit value written is the clamped sample s quantized as
\* round(s * 32768) for s < 0 and round(s * 32767) otherwise; 1.0, -1.0, 0.0
\* and 0.5 give 0x7FFF, 0x8000, 0x0000 and 0x4000.
C14_QuantizeRounds ==
  Encoded =>
    \A i \in FramesOf(wavBuffer) : \A ch \in ChannelsOf(wavBuffer) :
      LET s == Clamp(wavBuffer.data[ch + 1][i + 1])
      IN /\ Decoded(i, ch)
              = (IF s[1] < 0 THEN Round(s[1] * 32768, s[2])
                 ELSE Round(s[1] * 32767, s[2]))
         /\ s = <<1, 2>> => Uint(44 + 2 * (i * wavBuffer.numberOfChannels + ch), 2) = 16384

\* C15: the container is N*C*2 + 44 bytes long and its header declares chunk
\* size = length - 8, format 1, C channels, rate R, byte rate R*C*2, block
\* align C*2, 16 bits per sample and N*C*2 data bytes.
C15_Header ==
  Encoded =>
    LET n == wavBuffer.length
        c == wavBuffer.numberOfChannels
        r == wavBuffer.sampleRate
    IN /\ Len(wavBytes) = n * c * 2 + 44
       /\ Uint(0, 4) = 1179011410
       /\ Uint(4, 4) = Len(wavBytes) - 8
       /\ Uint(8, 4) = 1163280727
       /\ Uint(12, 4) = 544501094
       /\ Uint(16, 4) = 16
       /\ Uint(20, 2) = 1
       /\ Uint(22, 2) = c
       /\ Uint(24, 4) = r
       /\ Uint(28, 4) = r * c * 2
       /\ Uint(32, 2) = c * 2
       /\ Uint(34, 2) = 16
       /\ Uint(36, 4) = 1635017060
       /\ Uint(40, 4) = n * c * 2

\* a stereo buffer of two frames has been encoded
C15_Witness ==
  /\ Encoded
  /\ wavBuffer.numberOfChannels = 2
  /\ wavBuffer.length = 2
  /\ wavBuffer.sampleRate = 44100

\* C16: the sample of frame i, channel ch is the little-endian int16 at byte
\* 44 + 2*(i*C + ch); the data bytes fill [44, 44 + N*C*2) and the 44 header
\* bytes are those written for silence of the same shape.
C16_Interleaved ==
  Encoded =>
    /\ \A i \in FramesOf(wavBuffer) : \A ch \in ChannelsOf(wavBuffer) :
         Decoded(i, ch) = Quantize(wavBuffer.data[ch + 1][i + 1])
    /\ Len(wavBytes) = 44 + wavBuffer.length * wavBuffer.numberOfChannels * 2
    /\ \A k \in 1..44 : wavBytes[k] = audioBufferToWav(Silence(wavBuffer))[k]

\* two frames of two channels, the four samples all different, are encoded
C16_Witness ==
  /\ Encoded
  /\ wavBuffer.numberOfChannels = 2
  /\ wavBuffer.length = 2
  /\ Decoded(0, 1) # Decoded(1, 0)
  /\ Decoded(0, 0) # Decoded(0, 1)

\* C17: every value written is within one quantization step of the ideal
\* full-scale value of its clamped sample s: s*32768 below zero, s*32767
\* from zero up.
C17_WithinOneStep ==
  Encoded =>
    \A i \in FramesOf(wavBuffer) : \A ch \in ChannelsOf(wavBuffer) :
      LET s == Clamp(wavBuffer.data[ch + 1][i + 1])
          k == IF s[1] < 0 THEN 32768 ELSE 32767
          err == Decoded(i, ch) * s[2] - s[1] * k
      IN err <= s[2] /\ -err <= s[2]

\* ========================================================== analyser features
\* The frame is cut to its lowest FrameBins bins (frequencyBinCount is
\* fftSize / 2 in the program) and the renderers draw numBars and count bars
\* (512 and 64 in the program); bin frequencies keep the real fftSize.
FrameBins == 11        \* bins of a frame: dataArray.length
numBars == 5           \* bars of drawBars
count == 3             \* bars of MonstercatSpectrum
fftSize == 4096
minBin == 1

\* getByteFrequencyData results: a floor, a full-scale peak and a half-scale peak
Frames ==
  {[j \in 1..FrameBins |->
      IF j - 1 = p THEN 255 ELSE IF j - 1 = q THEN 128 ELSE floor] :
     p \in 0..(FrameBins - 1), q \in 0..(FrameBins - 1), floor \in {0, 255}}

\* data[j] of a Uint8Array (the sequence is indexed from 1)
Bin(data, j) == data[j + 1]

\* for (i = lo; i <= hi; i++) sum += data[i]
RECURSIVE SumBins(_, _, _)
SumBins(data, lo, hi) ==
  IF lo > hi THEN 0 ELSE Bin(data, lo) + SumBins(data, lo + 1, hi)

\* the mutant divides the mean by 255
getAverageFrequency_normalized(data) ==
  [op |-> "getAverageFrequency", bins |-> 0..(Len(data) - 1),
   sum |-> SumBins(data, 0, Len(data) - 1), count |-> 255 * Len(data)]

\* getAverageFrequency: the value returned is sum / count
getAverageFrequency(data) ==
  [op |-> "getAverageFrequency", bins |-> 0..(Len(data) - 1),
   sum |-> SumBins(data, 0, Len(data) - 1), count |-> Len(data)]

\* getBassEnergy: the value returned is sum / count, bins the indices read
getBassEnergy(data) ==
  [op |-> "getBassEnergy", bins |-> 1..8,
   sum |-> SumBins(data, 1, 8), count |-> 8]

\* Math.floor(minBin * Math.pow(maxBin / minBin, i / B)): the largest k with
\* k^B <= maxBin^i * minBin^(B - i)
LogBin(maxBin, i, B) ==
  CHOOSE k \in minBin..maxBin :
    /\ k ^ B <= (maxBin ^ i) * (minBin ^ (B - i))
    /\ (k + 1) ^ B > (maxBin ^ i) * (minBin ^ (B - i))

\* the inner loop of drawBars: maxVal over j in [startBin, safeEndBin), j < length
RECURSIVE MaxVal(_, _, _, _)
MaxVal(data, j, safeEndBin, maxVal) ==
  IF j < safeEndBin /\ j < Len(data)
  THEN MaxVal(data, j + 1, safeEndBin,
              IF Bin(data, j) > maxVal THEN Bin(data, j) ELSE maxVal)
  ELSE maxVal

\* the mutant leaves the span as computed, empty or not
SafeEndBin_unclamped(startBin, endBin) == endBin

\* const safeEndBin = Math.max(endBin, startBin + 1)
SafeEndBin(startBin, endBin) == Max(endBin, startBin + 1)

\* drawBars: maxVal of every bar, and the bins [startBin, safeEndBin) its
\* inner loop was given
drawBars(data) ==
  LET maxBin == FrameBins - 1
      startBin(i) == LogBin(maxBin, i, numBars)
      endBin(i) == LogBin(maxBin, i + 1, numBars)
  IN [op |-> "drawBars",
      bars |-> [i \in 0..(numBars - 1) |->
                  MaxVal(data, startBin(i), SafeEndBin(startBin(i), endBin(i)), 0)],
      spans |-> [i \in 0..(numBars - 1) |->
                   <<startBin(i), SafeEndBin(startBin(i), endBin(i))>>]]

\* Math.min(a, b)
Min(a, b) == IF a <= b THEN a ELSE b

\* MonstercatSpectrum: data[safeIndex] of every bar, and the one bin
\* [safeIndex, safeIndex + 1) it read
MonstercatSpectrum(data) ==
  LET maxBin == Len(data) - 1
      safeIndex(i) == Min(Len(data) - 1, Max(0, LogBin(maxBin, i, count)))
  IN [op |-> "MonstercatSpectrum",
      bars |-> [i \in 0..(count - 1) |-> Bin(data, safeIndex(i))],
      spans |-> [i \in 0..(count - 1) |-> <<safeIndex(i), safeIndex(i) + 1>>]]

\* every reader first refills dataArray with analyser.getByteFrequencyData
GetAverageFrequency ==
  /\ dataArray' \in Frames
  /\ features' = getAverageFrequency(dataArray')
  /\ UNCHANGED ctxSampleRate
  /\ UNCHANGED <<routerVars, mixVars, wavVars, appVars, trackVars, combinerVars>>

GetBassEnergy ==
  /\ dataArray' \in Frames
  /\ features' = getBassEnergy(dataArray')
  /\ UNCHANGED ctxSampleRate
  /\ UNCHANGED <<routerVars, mixVars, wavVars, appVars, trackVars, combinerVars>>

DrawBars ==
  /\ dataArray' \in Frames
  /\ features' = drawBars(dataArray')
  /\ UNCHANGED ctxSampleRate
  /\ UNCHANGED <<routerVars, mixVars, wavVars, appVars, trackVars, combinerVars>>

MonstercatSpectrumFrame ==
  /\ dataArray' \in Frames
  /\ features' = MonstercatSpectrum(dataArray')
  /\ UNCHANGED ctxSampleRate
  /\ UNCHANGED <<routerVars, mixVars, wavVars, appVars, trackVars, combinerVars>>

InitSpectrum ==
  /\ RouterUnused
  /\ MixerUnused
  /\ EncoderUnused
  /\ ctxSampleRate \in SampleRates
  /\ dataArray = [j \in 1..FrameBins |-> 0]
  /\ features = NoFeatures
  /\ AppUnused
  /\ TrackUnused
  /\ CombinerUnused

NextSpectrum ==
  \/ GetAverageFrequency
  \/ GetBassEnergy
  \/ DrawBars
  \/ MonstercatSpectrumFrame

SpecSpectrum == InitSpectrum /\ [][NextSpectrum]_vars

\* ---- claims about the features
\* bins whose centre frequency k * sampleRate / fftSize lies in [10, 90] Hz
BassBand ==
  {k \in 0..(Len(dataArray) - 1) :
     10 * fftSize <= k * ctxSampleRate /\ k * ctxSampleRate <= 90 * fftSize}

\* C18: getBassEnergy averages exactly the bins whose centre frequency lies in
\* [10, 90] Hz at the context's sample rate, at 44100 Hz and at 48000 Hz.
C18_BassBandBins ==
  features.op = "getBassEnergy" =>
    /\ features.bins = BassBand
    /\ features.sum * Cardinality(BassBand) = Sum([k \in BassBand |-> Bin(dataArray, k)], BassBand) * features.count

IsMean == features.op \in {"getAverageFrequency", "getBassEnergy"}

AllBins == SumBins(dataArray, 0, Len(dataArray) - 1)

\* C19 as stated: getAverageFrequency returns the mean of all bins divided by
\* 255, and both it and getBassEnergy return a value in [0, 1].
C19_Normalized ==
  IsMean =>
    /\ features.sum <= features.count
    /\ features.op = "getAverageFrequency" =>
         features.sum * 255 * Len(dataArray) = AllBins * features.count

\* C19: getAverageFrequency returns the arithmetic mean of all bins on the
\* byte scale, getBassEnergy the mean of the bins it reads; both lie in
\* [0, 255] and neither is divided by 255.
C19_MeanOfBytes ==
  IsMean =>
    /\ 0 <= features.sum
    /\ features.sum <= 255 * features.count
    /\ features.op = "getAverageFrequency" =>
         features.sum * Len(dataArray) = AllBins * features.count
    /\ features.op = "getBassEnergy" =>
         features.sum * 8 = SumBins(dataArray, 1, 8) * features.count

\* the mean of a frame with bins at full scale exceeds 1
C19_Witness ==
  /\ features.op = "getAverageFrequency"
  /\ features.sum > features.count
  /\ \E j \in 1..Len(dataArray) : dataArray[j] = 0

\* the logarithmic span of bar i out of B
Span(i, B) ==
  {j \in 0..(Len(dataArray) - 1) :
     /\ LogBin(Len(dataArray) - 1, i, B) <= j
     /\ j < LogBin(Len(dataArray) - 1, i + 1, B)}

\* C20: in drawBars and in MonstercatSpectrum the value of bar i is the
\* maximum magnitude over the bins of its logarithmic span (stated for the
\* spans that hold a bin).
C20_BarIsSpanMax ==
  features.op \in {"drawBars", "MonstercatSpectrum"} =>
    LET B == IF features.op = "drawBars" THEN numBars ELSE count
    IN \A i \in 0..(B - 1) :
         Span(i, B) # {} =>
           /\ \E j \in Span(i, B) : features.bars[i] = Bin(dataArray, j)
           /\ \A j \in Span(i, B) : features.bars[i] >= Bin(dataArray, j)

IsBars == features.op \in {"drawBars", "MonstercatSpectrum"}

\* the bins a renderer read for bar i
BarBins(i) ==
  {j \in 0..(Len(dataArray) - 1) :
     features.spans[i][1] <= j /\ j < features.spans[i][2]}

\* C21: the bar spans together cover every bin in [1, maxBin], bin maxBin
\* included, in drawBars and in MonstercatSpectrum.
C21_SpansCoverBins ==
  IsBars =>
    \A b \in 1..(Len(dataArray) - 1) :
      \E i \in DOMAIN features.spans : b \in BarBins(i)

C28_StreamMatchesSource ==
  /\ activeStream # NoStream <=> (source[1] = "stream" /\ source = StreamNode(activeStream))
  /\ source[1] \in {"none", "element"} => activeStream = NoStream

\* a second capture was granted while the first was attached: two streams
\* exist and the router holds the later one
C28_Witness ==
  /\ Len(streams) = 2
  /\ activeStream = 2
  /\ source = StreamNode(2)
  /\ lastOp.result = "true"
  /\ StreamNode(1) \in analyserInputs

\* ======================================================================== App
\* The handlers of App.tsx. A handler's `const graph = getAudioGraph()` finds
\* the instance the visualizer components created when they mounted; the
\* handler's continuation after `await graph.connect...()` runs in the same
\* turn in which the router method returns.
InputSources == {"FILE", "MICROPHONE", "SPOTIFY", "YOUTUBE", "SOUNDCLOUD", "SYSTEM"}
SystemSourceTypes == {"SYSTEM", "SPOTIFY"}

RemoveAt(seq, k) == SubSeq(seq, 1, k - 1) \o SubSeq(seq, k + 1, Len(seq))

\* a component calls getAudioGraph() while rendering
AppMount ==
  /\ getAudioGraph
  /\ UNCHANGED appVars

\* toggleMic up to its await, or all of its else branch
toggleMic ==
  IF ~app.isMicActive
  THEN /\ connectMicrophone
       /\ UNCHANGED appVars          \* pending, or `success` false: alert
  ELSE /\ Disconnect
       /\ app' = [app EXCEPT !.isMicActive = FALSE, !.inputSource = "FILE"]

\* connectMicrophone resolved true: the `if (success)` branch
toggleMicGranted(d) ==
  /\ connectMicrophoneGranted(d)
  /\ app' = [app EXCEPT !.inputSource = "MICROPHONE",
                        !.isMicActive = TRUE,
                        !.isSystemAudioActive = FALSE]

\* connectMicrophone resolved false: alert
toggleMicDenied(d) ==
  /\ connectMicrophoneDenied(d)
  /\ UNCHANGED appVars

\* toggleSystemAudio up to its await
toggleSystemAudio(sourceType) ==
  /\ connectSystemAudio
  /\ app' = IF lastOp'.result = "pending"
            THEN [app EXCEPT !.systemRequests = Append(@, sourceType)]
            ELSE app

\* `if (success)` after await graph.connectSystemAudio()
systemSucceeded(result) == result = "true"

\* connectSystemAudio resolved, true or false (no audio track)
toggleSystemAudioGranted(d) ==
  /\ connectSystemAudioGranted(d)
  /\ \E k \in 1..Len(app.systemRequests) :
       app' = IF systemSucceeded(lastOp'.result)
              THEN [app EXCEPT !.inputSource = app.systemRequests[k],
                               !.isSystemAudioActive = TRUE,
                               !.isMicActive = FALSE,
                               !.systemRequests = RemoveAt(@, k)]
              ELSE [app EXCEPT !.systemRequests = RemoveAt(@, k)]

\* connectSystemAudio resolved false after getDisplayMedia rejected: alert
toggleSystemAudioDenied(d) ==
  /\ connectSystemAudioDenied(d)
  /\ \E k \in 1..Len(app.systemRequests) :
       app' = [app EXCEPT !.systemRequests = RemoveAt(@, k)]

\* handleSourceChange
handleSourceChange(src) ==
  LET micOff == src # "MICROPHONE" /\ app.isMicActive
      systemOff == src \notin SystemSourceTypes /\ app.isSystemAudioActive
  IN /\ Constructed
     /\ IF micOff \/ systemOff
        THEN Disconnect
        ELSE UNCHANGED <<routerVars, mixVars, wavVars, spectrumVars, trackVars,
                         combinerVars>>
     /\ app' = [app EXCEPT !.inputSource = src,
                           !.isMicActive = IF micOff THEN FALSE ELSE @,
                           !.isSystemAudioActive = IF systemOff THEN FALSE ELSE @]

InitApp == Init

NextApp ==
  \/ AppMount
  \/ toggleMic
  \/ \E d \in BOOLEAN : toggleMicGranted(d)
  \/ \E d \in BOOLEAN : toggleMicDenied(d)
  \/ \E sourceType \in SystemSourceTypes : toggleSystemAudio(sourceType)
  \/ \E d \in BOOLEAN : toggleSystemAudioGranted(d)
  \/ \E d \in BOOLEAN : toggleSystemAudioDenied(d)
  \/ \E src \in InputSources : handleSourceChange(src)

SpecApp == InitApp /\ [][NextApp]_vars

\* the router's attached source is the node of a live-attached stream of this kind
AttachedKind(kind) ==
  /\ activeStream # NoStream
  /\ source = StreamNode(activeStream)
  /\ streams[activeStream].kind = kind

\* C27: whenever no connect call is pending, isMicActive is true only while
\* the router's source is the microphone stream and isSystemAudioActive only
\* while it is the system-loopback stream.
C27_FlagsAgreeWithRouter ==
  Pending = 0 =>
    /\ app.isMicActive => AttachedKind("microphone")
    /\ app.isSystemAudioActive => AttachedKind("system")

\* ================================================================== TrackCard
MaxFiles == 2          \* files the user picks for the track
MaxEnhances == 2       \* handleEnhance calls
DelayMs == 2000

\* the router after a track's <audio> element was connected for playback
RouterPlaying ==
  /\ audioGraphInstance = 1
  /\ instancesCreated = 1
  /\ returned = {1}
  /\ contextState = "running"
  /\ caps = [getUserMedia |-> TRUE, getDisplayMedia |-> TRUE]
  /\ source = ElementNode(1)
  /\ activeStream = NoStream
  /\ analyserInputs = {ElementNode(1)}
  /\ analyserToDestination = TRUE
  /\ streams = <<>>
  /\ tapped = {1}
  /\ calls = [c \in Calls |-> 0]
  /\ callPre = Idle
  /\ lastOp = Op("connectElement", "connected", "fresh", 1, FALSE)

\* ---- geminiService: what enhanceAudioWithGemini resolves with
Resolved(success, analysis, why, waited) ==
  [kind |-> "resolved", success |-> success, analysis |-> analysis,
   why |-> why, waited |-> waited]

\* the mutant always goes on to the remote call
missingKey_never(apiKey) == FALSE

\* `if (!process.env.API_KEY)`
missingKey(apiKey) == ~apiKey

\* the return after the 2000 ms timer
demoResult ==
  Resolved(TRUE, "DEMO MODE: API Key missing. Simulating AI analysis...",
           "demo", DelayMs)

\* response.text || "Analysis complete. Optimization profile generated."
analysisResult(text) ==
  Resolved(TRUE, IF text = "" THEN "Analysis complete. Optimization profile generated."
                 ELSE text, "analysed", 0)

\* the mutant lets the error escape: the promise rejects
errorResult_rethrown(why) ==
  [kind |-> "rejected", success |-> FALSE, analysis |-> "none", why |-> why,
   waited |-> 0]

\* the catch block's return
errorResult(why) == Resolved(FALSE, "Failed to connect to AI service.", why, 0)

\* ---- TrackCard
\* handleFileChange, from the file input shown while the track has no file
handleFileChange ==
  /\ track.state.file = 0
  /\ track.chosen < MaxFiles
  /\ track' = [track EXCEPT
       !.chosen = @ + 1,
       !.state = [track.state EXCEPT !.file = track.chosen + 1,
                                     !.originalUrl = track.chosen + 1,
                                     !.enhancedUrl = 0,
                                     !.status = "READY_TO_ENHANCE",
                                     !.analysisReport = "undefined"]]
  /\ UNCHANGED <<routerVars, mixVars, wavVars, spectrumVars, appVars, combinerVars>>

\* the remove-file button, shown while the track has a file
removeFile ==
  /\ track.state.file # 0
  /\ track' = [track EXCEPT
       !.state = [track.state EXCEPT !.file = 0, !.originalUrl = 0,
                                     !.enhancedUrl = 0, !.status = "IDLE"]]
  /\ UNCHANGED <<routerVars, mixVars, wavVars, spectrumVars, appVars, combinerVars>>

\* handleEnhance up to its await, with enhanceAudioWithGemini up to its first
\* await: the timer without a key, fileToBase64 with one. The call keeps the
\* trackState of the render it was made in.
handleEnhance ==
  /\ track.state.file # 0
  /\ track.state.status \notin {"COMPLETED", "PROCESSING"}
  /\ track.started < MaxEnhances
  /\ track' = [track EXCEPT
       !.started = @ + 1,
       !.state = [track.state EXCEPT !.status = "PROCESSING"],
       !.requests = @ \cup {[id |-> track.started + 1,
                             trackState |-> track.state,
                             phase |-> IF missingKey(track.apiKey) THEN "delay"
                                       ELSE "fileToBase64"]}]
  /\ UNCHANGED <<routerVars, mixVars, wavVars, spectrumVars, appVars, combinerVars>>

\* handleEnhance after its await: both onUpdate calls spread the trackState
\* the call kept; a rejected promise runs neither
afterEnhance(req, result) ==
  IF result.kind = "rejected" THEN track.state
  ELSE IF result.success
  THEN [req.trackState EXCEPT !.status = "COMPLETED",
                              !.enhancedUrl = req.trackState.originalUrl,
                              !.analysisReport = result.analysis]
  ELSE [req.trackState EXCEPT !.status = "ERROR",
                              !.analysisReport = "Optimization failed. Please try again."]

settle(req, result) ==
  /\ track' = [track EXCEPT
       !.requests = @ \ {req},
       !.state = afterEnhance(req, result),
       !.lastResult = [kind |-> result.kind, success |-> result.success,
                       analysis |-> result.analysis, why |-> result.why,
                       waited |-> result.waited, file |-> req.trackState.file]]
  /\ UNCHANGED <<routerVars, mixVars, wavVars, spectrumVars, appVars, combinerVars>>

\* the 2000 ms timer fires
delayElapsed(req) ==
  /\ req \in track.requests
  /\ req.phase = "delay"
  /\ settle(req, demoResult)

\* fileToBase64 resolves: generateContent is called
base64Resolved(req) ==
  /\ req \in track.requests
  /\ req.phase = "fileToBase64"
  /\ track' = [track EXCEPT
       !.requests = (@ \ {req}) \cup {[req EXCEPT !.phase = "generateContent"]},
       !.remoteCalls = @ + 1]
  /\ UNCHANGED <<routerVars, mixVars, wavVars, spectrumVars, appVars, combinerVars>>

\* fileToBase64 rejects (reader.onerror)
base64Rejected(req) ==
  /\ req \in track.requests
  /\ req.phase = "fileToBase64"
  /\ settle(req, errorResult("readFailed"))

\* generateContent resolves, with or without text
remoteResolved(req, text) ==
  /\ req \in track.requests
  /\ req.phase = "generateContent"
  /\ settle(req, analysisResult(text))

\* generateContent rejects
remoteRejected(req) ==
  /\ req \in track.requests
  /\ req.phase = "generateContent"
  /\ settle(req, errorResult("remoteFailed"))

InitTrack ==
  /\ RouterUnused \/ RouterPlaying
  /\ MixerUnused
  /\ EncoderUnused
  /\ SpectrumUnused
  /\ AppUnused
  /\ CombinerUnused
  /\ \E k \in BOOLEAN : track = [TrackInitial EXCEPT !.apiKey = k]

ResponseTexts == {"", "Boost the high shelf."}

NextTrack ==
  \/ handleFileChange
  \/ removeFile
  \/ handleEnhance
  \/ \E req \in track.requests : delayElapsed(req)
  \/ \E req \in track.requests : base64Resolved(req)
  \/ \E req \in track.requests : base64Rejected(req)
  \/ \E req \in track.requests : \E text \in ResponseTexts : remoteResolved(req, text)
  \/ \E req \in track.requests : remoteRejected(req)

SpecTrack == InitTrack /\ [][NextTrack]_vars

\* ---- claims about enhancement
\* C24: without a credential no remote call is ever issued and the call
\* returns, after the fixed delay, a successful report labelled DEMO MODE;
\* with or without a credential every call that settles resolves with a
\* success/failure result, it never rejects.
C24_DemoModeNoRemoteCall ==
  /\ ~track.apiKey =>
       /\ track.remoteCalls = 0
       /\ \A req \in track.requests : req.phase = "delay"
       /\ track.lastResult.kind # "none" =>
            /\ track.lastResult.kind = "resolved"
            /\ track.lastResult.success
            /\ track.lastResult.analysis = demoResult.analysis
            /\ track.lastResult.waited = DelayMs
  /\ track.lastResult.kind \in {"none", "resolved"}
  /\ track.lastResult.kind = "resolved" =>
       track.lastResult.analysis # "none"

\* without a credential an enhancement has completed with the demo report
C24_Witness ==
  /\ ~track.apiKey
  /\ track.lastResult.why = "demo"
  /\ track.state.status = "COMPLETED"
  /\ track.state.analysisReport = demoResult.analysis

RouterAndAnalyser ==
  <<source, activeStream, analyserInputs, analyserToDestination, streams,
    tapped, contextState, dataArray>>

EnhanceStep ==
  \/ handleEnhance
  \/ \E req \in track.requests :
       \/ delayElapsed(req)
       \/ base64Resolved(req)
       \/ base64Rejected(req)
       \/ remoteRejected(req)
       \/ \E text \in ResponseTexts : remoteResolved(req, text)

\* C25: a rejected remote call settles the enhancement with the failure
\* result carrying "Failed to connect to AI service." and puts the track in
\* ERROR; no step of an enhancement changes the router's source, its stream
\* or the analyser.
C25_RemoteFailureIsResult ==
  /\ [][(\E req \in track.requests : remoteRejected(req)) =>
          /\ track'.lastResult.kind = "resolved"
          /\ ~track'.lastResult.success
          /\ track'.lastResult.analysis = "Failed to connect to AI service."
          /\ track'.state.status = "ERROR"]_vars
  /\ [][EnhanceStep => UNCHANGED RouterAndAnalyser]_vars

\* while an element is attached to the router, a remote call has failed and
\* the track is in ERROR
C25_Witness ==
  /\ source = ElementNode(1)
  /\ track.lastResult.why = "remoteFailed"
  /\ track.state.status = "ERROR"
  /\ track.remoteCalls > 0

EnhanceSettles ==
  \E req \in track.requests :
    \/ delayElapsed(req)
    \/ base64Rejected(req)
    \/ remoteRejected(req)
    \/ \E text \in ResponseTexts : remoteResolved(req, text)

\* C30: the completion of an enhancement request never changes which file
\* the track holds: after a removal the track stays IDLE without a file, and
\* COMPLETED is only ever set for the file currently selected.
C30_CompletionKeepsFile ==
  [][EnhanceSettles =>
       /\ track'.state.file = track.state.file
       /\ track.state.file = 0 => track'.state.status = "IDLE"
       /\ track'.state.status = "COMPLETED" =>
            track'.lastResult.file = track.state.file]_vars

\* =================================================================== Combiner
MaxStemFrames == 2     \* longest stem, in frames
MaxCombines == 2       \* handleCombine calls

FileFormats == {"audio/flac", "audio/wav", "audio/mpeg"}

\* the files of the two tracks: audio that decodes, a file that reads but
\* does not decode, and a file that cannot be read
StemFiles ==
  {[kind |-> "audio", buffer |-> AudioBuffer(n, 44100, c, pattern)] :
     n \in 1..MaxStemFrames, c \in ChannelCounts, pattern \in {"full", "ramp"}}
  \cup {[kind |-> "corrupt", buffer |-> NoBuffer],
        [kind |-> "unreadable", buffer |-> NoBuffer]}

\* getExtension
getExtension(fmt) ==
  CASE fmt = "audio/mpeg" -> "mp3"
    [] fmt = "audio/flac" -> "flac"
    [] OTHER -> "wav"

\* the mixed AudioBuffer as the encoder reads it: samples as fractions
EncoderInput(b) ==
  [b EXCEPT !.data = [ch \in 1..b.numberOfChannels |->
                        [i \in 1..b.length |-> <<b.data[ch][i], 1>>]]]

\* the select element, shown until a mix has been exported
selectFormat(fmt) ==
  /\ combiner.mixedBlobUrl = "null"
  /\ fmt # combiner.selectedFormat
  /\ combiner' = [combiner EXCEPT !.selectedFormat = fmt]
  /\ UNCHANGED <<routerVars, mixVars, wavVars, spectrumVars, appVars, trackVars>>

\* handleCombine up to its first await: the button is shown until a mix has
\* been exported and is disabled while isMixing
handleCombine ==
  /\ combiner.mixedBlobUrl = "null"
  /\ ~combiner.isMixing
  /\ combiner.combines < MaxCombines
  /\ combiner.vocalFile.kind # "none" /\ combiner.instFile.kind # "none"
  /\ combiner' = [combiner EXCEPT !.isMixing = TRUE, !.phase = "readVocal",
                                  !.combines = @ + 1, !.outcome = "running"]
  /\ UNCHANGED <<routerVars, mixVars, wavVars, spectrumVars, appVars, trackVars>>

\* the mutant has no finally block: a failure leaves isMixing set
failCombine_noFinally(c) == [c EXCEPT !.phase = "idle", !.outcome = "failed"]

\* catch (alert) and finally (setIsMixing(false))
failCombine(c) ==
  [c EXCEPT !.phase = "idle", !.outcome = "failed", !.isMixing = FALSE]

\* `await readFileToArrayBuffer(file)` settles; after the second read
\* decodeAudioData(vocalBufferRaw) creates its AudioContext
readSettles ==
  /\ combiner.phase \in {"readVocal", "readInst"}
  /\ LET file == IF combiner.phase = "readVocal" THEN combiner.vocalFile
                 ELSE combiner.instFile
     IN combiner' =
          IF file.kind = "unreadable" THEN failCombine(combiner)
          ELSE IF combiner.phase = "readVocal"
          THEN [combiner EXCEPT !.phase = "readInst"]
          ELSE [combiner EXCEPT !.phase = "decodeVocal", !.openContexts = @ + 1]
  /\ UNCHANGED <<routerVars, mixVars, wavVars, spectrumVars, appVars, trackVars>>

\* `await audioContext.decodeAudioData(arrayBuffer)` settles: on success
\* decodeAudioData goes on to `await audioContext.close()`, on failure the
\* rejection leaves decodeAudioData at once
decodeSettles ==
  /\ combiner.phase \in {"decodeVocal", "decodeInst"}
  /\ LET vocal == combiner.phase = "decodeVocal"
         file == IF vocal THEN combiner.vocalFile ELSE combiner.instFile
     IN IF file.kind = "corrupt"
        THEN /\ combiner' = failCombine(combiner)
             /\ UNCHANGED mixVars
        ELSE /\ combiner' = [combiner EXCEPT
                               !.phase = IF vocal THEN "closeVocal" ELSE "closeInst"]
             /\ buffer1' = IF vocal THEN file.buffer ELSE buffer1
             /\ buffer2' = IF vocal THEN buffer2 ELSE file.buffer
             /\ UNCHANGED <<mixed, mixResults>>
  /\ UNCHANGED <<routerVars, wavVars, spectrumVars, appVars, trackVars>>

\* `await audioContext.close()` resolves and decodeAudioData returns; after
\* the vocal stem the instrumental is decoded in a new AudioContext (one
\* closed, one created), after the instrumental mixAudioBuffers starts
\* rendering
closeResolves ==
  /\ combiner.phase \in {"closeVocal", "closeInst"}
  /\ combiner' = IF combiner.phase = "closeVocal"
                 THEN [combiner EXCEPT !.phase = "decodeInst"]
                 ELSE [combiner EXCEPT !.phase = "mix", !.openContexts = @ - 1]
  /\ UNCHANGED <<routerVars, mixVars, wavVars, spectrumVars, appVars, trackVars>>

\* `await mixAudioBuffers(..)` resolves: the mix is encoded, its object url
\* stored, and finally isMixing cleared
mixResolves ==
  /\ combiner.phase = "mix"
  /\ mixed' = mixAudioBuffers(buffer1, buffer2)
  /\ mixResults' = mixResults \cup {mixed'}
  /\ wavBuffer' = EncoderInput(mixed')
  /\ wavBytes' = audioBufferToWav(wavBuffer')
  /\ combiner' = [combiner EXCEPT !.phase = "idle", !.outcome = "exported",
                                  !.mixedBlobUrl = "blob", !.isMixing = FALSE]
  /\ UNCHANGED <<buffer1, buffer2>>
  /\ UNCHANGED <<routerVars, spectrumVars, appVars, trackVars>>

\* offlineCtx.startRendering() rejects
mixRejects ==
  /\ combiner.phase = "mix"
  /\ combiner' = failCombine(combiner)
  /\ UNCHANGED <<routerVars, mixVars, wavVars, spectrumVars, appVars, trackVars>>

\* the download link, shown once a mix has been exported
download ==
  /\ combiner.mixedBlobUrl # "null"
  /\ combiner' = [combiner EXCEPT !.downloaded = getExtension(combiner.selectedFormat)]
  /\ UNCHANGED <<routerVars, mixVars, wavVars, spectrumVars, appVars, trackVars>>

InitCombiner ==
  /\ RouterUnused
  /\ MixerUnused
  /\ EncoderUnused
  /\ SpectrumUnused
  /\ AppUnused
  /\ TrackUnused
  /\ \E v \in StemFiles, i \in StemFiles :
       combiner = [CombinerInitial EXCEPT !.vocalFile = v, !.instFile = i]

\* a promise handleCombine awaits does not stay pending for ever. The
\* rendering is covered by mixRejects, which is enabled exactly while the
\* rendering is pending: a rendering that resolves disables it.
PendingSettles ==
  \/ readSettles
  \/ decodeSettles
  \/ closeResolves
  \/ mixRejects

NextCombiner ==
  \/ \E fmt \in FileFormats : selectFormat(fmt)
  \/ handleCombine
  \/ readSettles
  \/ decodeSettles
  \/ closeResolves
  \/ mixResolves
  \/ mixRejects
  \/ download

SpecCombiner == InitCombiner /\ [][NextCombiner]_vars

\* every promise handleCombine awaits settles
SpecCombinerFair == SpecCombiner /\ WF_vars(PendingSettles)

\* ---- claims about the export
\* what the exported bytes are: a RIFF/WAVE file
Container ==
  IF Len(wavBytes) >= 44 /\ Uint(0, 4) = 1179011410 /\ Uint(8, 4) = 1163280727
  THEN "wav" ELSE "unknown"

\* C23: whichever format is selected, the file offered for download holds a
\* 16-bit PCM WAV container and its name ends in the suffix of that container.
C23_SuffixIsContainer ==
  combiner.downloaded # "none" =>
    /\ Container = "wav"
    /\ Uint(20, 2) = 1
    /\ Uint(34, 2) = 16
    /\ combiner.downloaded = Container

\* C26: a handleCombine call that failed (a read, a decode or the mix) has
\* set no blob url and handed nothing to the encoder, and isMixing is false
\* once it has settled; and whenever isMixing is set it is cleared later.
C26_FailureExportsNothing ==
  /\ [](combiner.outcome = "failed" =>
          /\ combiner.mixedBlobUrl = "null"
          /\ wavBuffer = NoBuffer
          /\ wavBytes = <<>>
          /\ ~combiner.isMixing)
  /\ [](combiner.phase = "idle" => ~combiner.isMixing)
  /\ (combiner.isMixing ~> ~combiner.isMixing)

\* the instrumental stem failed to decode after the vocal stem had decoded
C26_Witness ==
  /\ combiner.outcome = "failed"
  /\ combiner.vocalFile.kind = "audio"
  /\ combiner.instFile.kind = "corrupt"
  /\ buffer1 # NoBuffer
  /\ ~combiner.isMixing

\* C29: once a handleCombine call has settled, every AudioContext that
\* decodeAudioData created is closed.
C29_ContextsClosed ==
  combiner.phase = "idle" => combiner.openContexts = 0

====
